---- MODULE Spec2Model ----
(***************************************************************************)
(* Model of src/app.py: the short-link resolution chain, the product       *)
(* identifier extraction and the affiliate link synthesis of the Shopee    *)
(* affiliate link generator.  URLs are strings; the regular expressions of *)
(* the source are evaluated character by character.                        *)
(***************************************************************************)
EXTENDS Integers, Sequences, FiniteSets, TLC

VARIABLES
  pc,             \* where main stands
  shopee_url,     \* the text of the form, or of the clipboard
  parts,          \* how that text was put together (not read by the program)
  idx,            \* the method the loop of expand_short_url is at
  calls,          \* the strategies invoked so far, in order
  rets,           \* what each of them gave back
  lastResp,       \* the network answer the last of them got
  expanded_url,   \* what expand_short_url returned
  product_info,   \* what extract_product_info returned
  affiliate_link, \* the link shown
  outcome         \* what the run reported

vars == <<pc, shopee_url, parts, idx, calls, rets, lastResp,
          expanded_url, product_info, affiliate_link, outcome>>

---------------------------------------------------------------------------
(* Bounds of the model *)

\* shop and item ids range over 0..MaxId (plus the ids 123 and 456)
MaxId == 1

---------------------------------------------------------------------------
(* Python values: None, str, int *)

PyNone == [t |-> "none"]
PyStr(s) == [t |-> "str", s |-> s]
PyInt(n) == [t |-> "int", n |-> n]

\* truth value of a Python value, as `if expanded` / `if not product_info` take it
Truthy(v) ==
  CASE v.t = "none" -> FALSE
    [] v.t = "str" -> v.s # ""
    [] v.t = "int" -> v.n # 0
    [] OTHER -> TRUE

---------------------------------------------------------------------------
(* Strings and the pieces of the regular expressions *)

Ch(s, i) == SubSeq(s, i, i)

UpperLetters == "ABCDEFGHIJKLMNOPQRSTUVWXYZ"
LowerLetters == "abcdefghijklmnopqrstuvwxyz"

LowerMap ==
  [c \in {Ch(UpperLetters, k) : k \in 1..Len(UpperLetters)} |->
     Ch(LowerLetters, CHOOSE k \in 1..Len(UpperLetters) : Ch(UpperLetters, k) = c)]

LowerChar(c) == IF c \in DOMAIN LowerMap THEN LowerMap[c] ELSE c

RECURSIVE ToLower(_)
ToLower(s) ==
  IF Len(s) = 0 THEN ""
  ELSE ToLower(SubSeq(s, 1, Len(s) - 1)) \o LowerChar(Ch(s, Len(s)))

IsDigit(c) == c \in {"0", "1", "2", "3", "4", "5", "6", "7", "8", "9"}

IsSpace(c) == c \in {" ", "\t"}

\* the literal lit stands in s at position i
StartsAt(s, i, lit) ==
  /\ i >= 1
  /\ i + Len(lit) - 1 <= Len(s)
  /\ SubSeq(s, i, i + Len(lit) - 1) = lit

\* re.search(lit, s) for a pattern that is a literal
Search(s, lit) == \E i \in 1..Len(s) : StartsAt(s, i, lit)

\* a (\d) in place of (\d+): one digit only
DigitRunOneDigit(s, i) ==
  IF i <= Len(s) /\ IsDigit(Ch(s, i)) THEN i ELSE i - 1

\* (\d+) at position i: the last position of the longest run of digits
\* starting at i, i - 1 when there is none
DigitRun(s, i) ==
  CHOOSE j \in (i - 1)..Len(s) :
    /\ \A k \in i..j : IsDigit(Ch(s, k))
    /\ (j = Len(s) \/ ~IsDigit(Ch(s, j + 1)))

\* ([^/]+) at position i: the last position of the longest run of characters
\* other than "/" starting at i, i - 1 when there is none
NonSlashRun(s, i) ==
  CHOOSE j \in (i - 1)..Len(s) :
    /\ \A k \in i..j : Ch(s, k) # "/"
    /\ (j = Len(s) \/ Ch(s, j + 1) = "/")

\* str.strip()
Strip(s) ==
  IF \A k \in 1..Len(s) : IsSpace(Ch(s, k)) THEN ""
  ELSE LET first == CHOOSE i \in 1..Len(s) :
                      ~IsSpace(Ch(s, i)) /\ \A k \in 1..(i - 1) : IsSpace(Ch(s, k))
           last == CHOOSE j \in 1..Len(s) :
                      ~IsSpace(Ch(s, j)) /\ \A k \in (j + 1)..Len(s) : IsSpace(Ch(s, k))
       IN SubSeq(s, first, last)

---------------------------------------------------------------------------
(* is_short_url *)

short_url_patterns == <<"shope.ee", "s.shopee.", ".shp.ee", "shopee.link">>

\* re.IGNORECASE: the letters of the URL and of the pattern are compared
\* without case
is_short_url(url) ==
  LET lowered == ToLower(url)
  IN \E p \in 1..Len(short_url_patterns) : Search(lowered, ToLower(short_url_patterns[p]))

---------------------------------------------------------------------------
(* extract_product_info *)

Domains == <<"shopee.co.id", "shopee.com.my", "shopee.sg", "shopee.ph",
             "shopee.co.th", "shopee.vn", "shopee.com.br", "shopee.tw",
             "shopee.com">>

NumDomains == Len(Domains)

\* the 18 patterns, in the order of the list: the nine product patterns,
\* then the nine legacy patterns
patterns ==
  [k \in 1..(2 * NumDomains) |->
     IF k <= NumDomains
     THEN [dom |-> Domains[k], shape |-> "product"]
     ELSE [dom |-> Domains[k - NumDomains], shape |-> "legacy"]]

\* {dom}/product/(\d+)/(\d+) matches at position i
ProductAt(s, i, dom) ==
  LET lit == dom \o "/product/"
      p == i + Len(lit)
      e1 == DigitRun(s, p)
      e2 == DigitRun(s, e1 + 2)
  IN /\ StartsAt(s, i, lit)
     /\ e1 >= p
     /\ StartsAt(s, e1 + 1, "/")
     /\ e2 >= e1 + 2

\* \.i\.(\d+)\.(\d+) matches at position j
LegacyTailAt(s, j) ==
  LET p == j + 3
      e1 == DigitRun(s, p)
      e2 == DigitRun(s, e1 + 2)
  IN /\ StartsAt(s, j, ".i.")
     /\ e1 >= p
     /\ StartsAt(s, e1 + 1, ".")
     /\ e2 >= e1 + 2

\* the legacy pattern without the "/" that ends the domain
LegacyAtNoSlash(s, i, j, dom) ==
  /\ StartsAt(s, i, dom)
  /\ j >= i + Len(dom)
  /\ \A k \in (i + Len(dom))..(j - 1) : Ch(s, k) # "\n"
  /\ LegacyTailAt(s, j)

\* {dom}/.*?\.i\.(\d+)\.(\d+) matches at position i with \.i\. at position j:
\* .*? takes the characters in between, none of them a newline
LegacyAt(s, i, j, dom) ==
  LET lit == dom \o "/"
  IN /\ StartsAt(s, i, lit)
     /\ j >= i + Len(lit)
     /\ \A k \in (i + Len(lit))..(j - 1) : Ch(s, k) # "\n"
     /\ LegacyTailAt(s, j)

Min(S) == CHOOSE x \in S : \A y \in S : x <= y

NoMatch == [found |-> FALSE]

\* re.search(pattern, url) for one pattern of the list: the leftmost match
\* (for the legacy shape the nearest \.i\. after it, .*? being lazy) and its
\* two groups
PatternSearch(url, pat) ==
  IF pat.shape = "product"
  THEN LET starts == {i \in 1..Len(url) : ProductAt(url, i, pat.dom)}
       IN IF starts = {} THEN NoMatch
          ELSE LET p == Min(starts) + Len(pat.dom) + Len("/product/")
                   e1 == DigitRun(url, p)
                   e2 == DigitRun(url, e1 + 2)
               IN [found |-> TRUE, g1 |-> SubSeq(url, p, e1),
                   g2 |-> SubSeq(url, e1 + 2, e2)]
  ELSE LET tails == {j \in 1..Len(url) : LegacyTailAt(url, j)}
           starts == {i \in 1..Len(url) : \E j \in tails : LegacyAt(url, i, j, pat.dom)}
       IN IF starts = {} THEN NoMatch
          ELSE LET i == Min(starts)
                   j == Min({j0 \in tails : LegacyAt(url, i, j0, pat.dom)})
                   p == j + 3
                   e1 == DigitRun(url, p)
                   e2 == DigitRun(url, e1 + 2)
               IN [found |-> TRUE, g1 |-> SubSeq(url, p, e1),
                   g2 |-> SubSeq(url, e1 + 2, e2)]

\* https?://([^/]+) matches at position i
AuthorityAt(s, i) ==
  \/ StartsAt(s, i, "http://") /\ NonSlashRun(s, i + 7) >= i + 7
  \/ StartsAt(s, i, "https://") /\ NonSlashRun(s, i + 8) >= i + 8

FallbackDomain == "shopee.co.th"

\* domain_match.group(1) if domain_match else 'shopee.co.th'
DomainOf(url) ==
  IF \E i \in 1..Len(url) : AuthorityAt(url, i)
  THEN LET i == Min({i0 \in 1..Len(url) : AuthorityAt(url, i0)})
           p == IF StartsAt(url, i, "http://") THEN i + 7 ELSE i + 8
       IN SubSeq(url, p, NonSlashRun(url, p))
  ELSE FallbackDomain

\* the indices of the patterns that match url
Matching(url) == {k \in 1..Len(patterns) : PatternSearch(url, patterns[k]).found}

\* the loop over the list stops at the first pattern that matches
extract_product_info(url) ==
  LET matching == Matching(url)
  IN IF matching = {} THEN PyNone
     ELSE LET k == Min(matching)
              m == PatternSearch(url, patterns[k])
          IN [t |-> "dict",
              shop_id |-> m.g1,
              item_id |-> m.g2,
              domain |-> DomainOf(url),
              is_product_format |-> (patterns[k].shape = "product")]

---------------------------------------------------------------------------
(* The four resolution strategies.  A network answer is a record: a       *)
(* transport failure (connection error, timeout) or an HTTP response.     *)

HTTP_OK == 200

\* data.get(key, default) on a JSON object held as a function from keys
DictGet(d, key, default) == IF key \in DOMAIN d THEN d[key] ELSE default

EmptyDict == [k \in {} |-> PyNone]

\* expand_with_requests without the comparison with the input
expand_with_requests_unchecked(url, resp) ==
  IF resp.kind # "http" THEN PyNone ELSE PyStr(resp.url)

\* lines 44-56: HEAD with redirects followed; the status is not looked at,
\* every exception gives None
expand_with_requests(url, resp) ==
  IF resp.kind # "http" THEN PyNone
  ELSE IF resp.url # url THEN PyStr(resp.url) ELSE PyNone

\* response.json() followed by data.get(field): a body that is no JSON raises
\* in json(), a JSON list has no get; both end in the bare except
JsonField(resp, field) ==
  IF resp.kind # "http" THEN PyNone
  ELSE IF resp.status # HTTP_OK THEN PyNone
  ELSE IF resp.body.json # "dict" THEN PyNone
  ELSE DictGet(resp.body.d, field, PyNone)

\* lines 58-67
expand_with_unshorten_api(url, resp) == JsonField(resp, "resolved_url")

\* lines 69-78
expand_with_longurl_api(url, resp) == JsonField(resp, "long_url")

\* lines 89-97 on the page held in contents: the page is held as the first
\* groups of the two searches, None where the tag does not occur; the
\* canonical link goes first
ScrapeContents(content) ==
  IF content.canonical # PyNone THEN content.canonical
  ELSE IF content.og # PyNone THEN content.og
  ELSE PyNone

NoTags == [t |-> "html", canonical |-> PyNone, og |-> PyNone]

\* lines 80-99: contents defaults to '' (a page without tags); re.search on a
\* contents that is no string raises into the bare except
expand_with_allorigins_proxy(url, resp) ==
  IF resp.kind # "http" THEN PyNone
  ELSE IF resp.status # HTTP_OK THEN PyNone
  ELSE IF resp.body.json # "dict" THEN PyNone
  ELSE LET content == DictGet(resp.body.d, "contents", NoTags)
       IN IF content.t # "html" THEN PyNone ELSE ScrapeContents(content)

methods == <<"expand_with_requests", "expand_with_unshorten_api",
             "expand_with_longurl_api", "expand_with_allorigins_proxy">>

\* method(short_url) inside the try of line 34: the value returned, or that
\* the call raised.  Every strategy catches everything itself.
CallMethod(m, url, resp) ==
  [raised |-> FALSE,
   value |-> CASE m = 1 -> expand_with_requests(url, resp)
               [] m = 2 -> expand_with_unshorten_api(url, resp)
               [] m = 3 -> expand_with_longurl_api(url, resp)
               [] m = 4 -> expand_with_allorigins_proxy(url, resp)]

\* line 36 without the comparison with the input
ChainAcceptsAnyTruthy(url, value) == Truthy(value)

\* line 36: if expanded and expanded != short_url
ChainAccepts(url, value) == Truthy(value) /\ value # PyStr(url)

\* line 23 without the early return
NeedsExpansionAlways(url) == TRUE

\* line 23: the chain is entered only for a short URL
NeedsExpansion(url) == is_short_url(url)

---------------------------------------------------------------------------
(* The inputs the model draws from *)

Ids == {ToString(n) : n \in (0..MaxId) \cup {123, 456}}

Schemes == {"https://", "http://"}

Queries == {"", "?sp_atk=1"}

DomainSet == {Domains[k] : k \in 1..NumDomains}

ProductURL(scheme, dom, shop, item) ==
  scheme \o dom \o "/product/" \o shop \o "/" \o item

LegacyURL(scheme, dom, shop, item) ==
  scheme \o dom \o "/name.i." \o shop \o "." \o item

Parts(shape, sc, dom, shop, item) ==
  [shape |-> shape, scheme |-> sc, dom |-> dom, shop |-> shop, item |-> item]

NoParts == Parts("other", "", "", "", "")

\* well-formed product URLs: one marketplace domain, one of the two shapes
WellFormedURLs ==
  {[text |-> ProductURL(sc, dom, shop, item) \o q,
    parts |-> Parts("product", sc, dom, shop, item)] :
     sc \in Schemes, dom \in DomainSet, shop \in Ids, item \in Ids, q \in Queries}
  \cup
  {[text |-> LegacyURL(sc, dom, shop, item) \o q,
    parts |-> Parts("legacy", sc, dom, shop, item)] :
     sc \in Schemes, dom \in DomainSet, shop \in Ids, item \in Ids, q \in Queries}

\* the same without a scheme: no authority for https?://([^/]+) to find
SchemelessURLs ==
  {[text |-> ProductURL("", dom, "123", "456"),
    parts |-> Parts("product", "", dom, "123", "456")] : dom \in DomainSet}
  \cup
  {[text |-> LegacyURL("", dom, "123", "456"),
    parts |-> Parts("legacy", "", dom, "123", "456")] : dom \in DomainSet}

OtherURLs ==
  {"https://shopee.co.th/product/1/2/x.i.3.4",
   "https://shopee.sg/product/1/2?r=https://shopee.co.id/product/3/4",
   "https://shopee.co.th/",
   "https://shopee.co.th/product/12a/3",
   "https://shopee.co.th/name-i.123.456",
   "https://example.com/product/1/2",
   "  https://shopee.co.th/product/123/456 "}

ShortURLs ==
  {"https://shope.ee/abc",
   "https://s.shopee.co.th/xyz",
   "https://th.shp.ee/q",
   "https://shopee.link/z",
   "HTTPS://SHOPE.EE/ABC",
   " https://shope.ee/abc\t",
   "https://s.shopee.co.th/product/1/2",
   "https://shopee.co.th/product/123/456?ref=shope.ee"}

BlankInputs == {"", " ", " \t "}

Inputs ==
  WellFormedURLs \cup SchemelessURLs \cup
  {[text |-> u, parts |-> NoParts] : u \in OtherURLs \cup ShortURLs \cup BlankInputs}

\* where a short link may lead
Targets ==
  {"https://shopee.co.th/product/123/456",
   "https://shopee.vn/name.i.1.0",
   "https://shopee.co.th/"}

TransportFailures == {[kind |-> "conn_error"], [kind |-> "timeout"]}

Statuses == {HTTP_OK, 404}

HeadResponses(url) ==
  TransportFailures \cup
  {[kind |-> "http", status |-> st, url |-> u] : st \in Statuses, u \in Targets \cup {url}}

FieldValues(url) ==
  {PyNone, PyStr(""), PyInt(123), PyStr(url)} \cup {PyStr(u) : u \in Targets}

JsonBodies(url, field, other) ==
  {[json |-> "invalid"], [json |-> "list"], [json |-> "dict", d |-> EmptyDict],
   [json |-> "dict", d |-> (other :> PyStr("https://shopee.co.th/product/123/456"))]}
  \cup {[json |-> "dict", d |-> (field :> v)] : v \in FieldValues(url)}

TagValues(url) == {PyNone, PyStr(""), PyStr(url), PyStr("https://shopee.co.th/product/123/456")}

Pages(url) == {[t |-> "html", canonical |-> c, og |-> o] : c \in TagValues(url), o \in TagValues(url)}

ProxyBodies(url) ==
  {[json |-> "invalid"], [json |-> "list"], [json |-> "dict", d |-> EmptyDict],
   [json |-> "dict", d |-> ("contents" :> PyNone)]}
  \cup {[json |-> "dict", d |-> ("contents" :> page)] : page \in Pages(url)}

ApiResponses(bodies) ==
  TransportFailures \cup {[kind |-> "http", status |-> st, body |-> b] : st \in Statuses, b \in bodies}

Responses(m, url) ==
  CASE m = 1 -> HeadResponses(url)
    [] m = 2 -> ApiResponses(JsonBodies(url, "resolved_url", "long_url"))
    [] m = 3 -> ApiResponses(JsonBodies(url, "long_url", "resolved_url"))
    [] m = 4 -> ApiResponses(ProxyBodies(url))

---------------------------------------------------------------------------
(* main *)

affiliate_id == "an_15310390250"

\* the URL main hands to expand_short_url (line 245)
Url == Strip(shopee_url)

\* a link that keeps the shape of the URL the identifier came from
BuildLinkKeepShape(info, tag) ==
  IF info.is_product_format
  THEN "https://" \o info.domain \o "/product/" \o info.shop_id \o "/" \o info.item_id
       \o "?utm_medium=affiliates&utm_source=" \o Strip(tag)
  ELSE "https://" \o info.domain \o "/product.i." \o info.shop_id \o "." \o info.item_id
       \o "?utm_medium=affiliates&utm_source=" \o Strip(tag)

\* lines 263-264
BuildLink(info, tag) ==
  "https://" \o info.domain \o "/product/" \o info.shop_id \o "/" \o info.item_id
  \o "?utm_medium=affiliates&utm_source=" \o Strip(tag)

Init ==
  /\ pc = "idle"
  /\ shopee_url = ""
  /\ parts = NoParts
  /\ idx = 1
  /\ calls = <<>>
  /\ rets = <<>>
  /\ lastResp = [kind |-> "none"]
  /\ expanded_url = PyNone
  /\ product_info = PyNone
  /\ affiliate_link = ""
  /\ outcome = "none"

\* lines 216-233 for "Generate Affiliate Link": the text of the form is taken
Submit ==
  /\ pc = "idle"
  /\ \E inp \in Inputs :
       /\ shopee_url' = inp.text
       /\ parts' = inp.parts
       /\ IF Strip(inp.text) = "" \/ Strip(affiliate_id) = ""
          THEN pc' = "failed" /\ outcome' = "error_empty"
          ELSE pc' = "start" /\ outcome' = outcome
  /\ UNCHANGED <<idx, calls, rets, lastResp, expanded_url, product_info, affiliate_link>>

\* lines 216-233 for "Paste & Generate Link": the clipboard is taken, and a
\* clipboard that cannot be read ends the run with a warning
PasteAndGenerate ==
  /\ pc = "idle"
  /\ \/ /\ pc' = "failed"
        /\ outcome' = "warning_clipboard"
        /\ shopee_url' = shopee_url
        /\ parts' = parts
     \/ \E inp \in Inputs :
          /\ shopee_url' = inp.text
          /\ parts' = inp.parts
          /\ IF Strip(inp.text) = "" \/ Strip(affiliate_id) = ""
             THEN pc' = "failed" /\ outcome' = "error_empty"
             ELSE pc' = "start" /\ outcome' = outcome
  /\ UNCHANGED <<idx, calls, rets, lastResp, expanded_url, product_info, affiliate_link>>

\* lines 245, 21-31: expand_short_url is entered
ExpandShortUrl ==
  /\ pc = "start"
  /\ IF NeedsExpansion(Url)
     THEN pc' = "expanding" /\ expanded_url' = expanded_url
     ELSE pc' = "extracting" /\ expanded_url' = PyStr(Url)
  /\ idx' = 1
  /\ UNCHANGED <<shopee_url, parts, calls, rets, lastResp, product_info, affiliate_link, outcome>>

\* lines 33-42: one turn of the loop over the methods, the call of the
\* strategy included; after the last method the short URL is returned
TryMethod ==
  /\ pc = "expanding"
  /\ idx <= Len(methods)
  /\ \E resp \in Responses(idx, Url) :
       LET out == CallMethod(idx, Url, resp)
       IN /\ calls' = Append(calls, methods[idx])
          /\ rets' = Append(rets, out)
          /\ lastResp' = resp
          /\ IF ~out.raised /\ ChainAccepts(Url, out.value)
             THEN pc' = "extracting" /\ expanded_url' = out.value /\ idx' = idx
             ELSE IF idx = Len(methods)
                  THEN pc' = "extracting" /\ expanded_url' = PyStr(Url) /\ idx' = idx
                  ELSE pc' = "expanding" /\ expanded_url' = expanded_url /\ idx' = idx + 1
  /\ UNCHANGED <<shopee_url, parts, product_info, affiliate_link, outcome>>

\* the extraction step without the report of line 255
ExtractProductInfoSilent ==
  /\ pc = "extracting"
  /\ IF expanded_url.t # "str"
     THEN pc' = "failed" /\ outcome' = "error_unexpected" /\ product_info' = product_info
     ELSE LET info == extract_product_info(expanded_url.s)
          IN /\ product_info' = info
             /\ outcome' = outcome
             /\ IF info = PyNone THEN pc' = "failed" ELSE pc' = "synthesizing"
  /\ UNCHANGED <<shopee_url, parts, idx, calls, rets, lastResp, expanded_url, affiliate_link>>

\* lines 247-256, 291-293: re.search on a value that is no string raises a
\* TypeError, which the except of main reports
ExtractProductInfo ==
  /\ pc = "extracting"
  /\ IF expanded_url.t # "str"
     THEN pc' = "failed" /\ outcome' = "error_unexpected" /\ product_info' = product_info
     ELSE LET info == extract_product_info(expanded_url.s)
          IN /\ product_info' = info
             /\ IF info = PyNone
                THEN pc' = "failed" /\ outcome' = "error_no_identifier"
                ELSE pc' = "synthesizing" /\ outcome' = outcome
  /\ UNCHANGED <<shopee_url, parts, idx, calls, rets, lastResp, expanded_url, affiliate_link>>

\* lines 258-288
GenerateLink ==
  /\ pc = "synthesizing"
  /\ affiliate_link' = BuildLink(product_info, affiliate_id)
  /\ pc' = "done"
  /\ outcome' = "link"
  /\ UNCHANGED <<shopee_url, parts, idx, calls, rets, lastResp, expanded_url, product_info>>

Next ==
  \/ Submit
  \/ PasteAndGenerate
  \/ ExpandShortUrl
  \/ TryMethod
  \/ ExtractProductInfo
  \/ GenerateLink

Spec == Init /\ [][Next]_vars
---------------------------------------------------------------------------
(* Properties *)

\* expand_short_url has returned
ExpandReturned ==
  \/ pc \in {"extracting", "synthesizing", "done"}
  \/ pc = "failed" /\ outcome \in {"error_no_identifier", "error_unexpected"}

\* what the last strategy invoked gave back
LastRet == rets[Len(rets)]

\* C1: for a URL that matches none of the short-link patterns,
\* expand_short_url returns exactly that URL and invokes no strategy.
C1_NonShortUnchanged ==
  (pc # "idle" /\ ~is_short_url(Url)) =>
     /\ pc # "expanding"
     /\ calls = <<>>
     /\ (ExpandReturned => expanded_url = PyStr(Url))

C1_Witness ==
  /\ pc = "extracting"
  /\ shopee_url = "  https://shopee.co.th/product/123/456 "
  /\ ~is_short_url(Url)
  /\ calls = <<>>
  /\ expanded_url = PyStr("https://shopee.co.th/product/123/456")

\* the strategies invoked are the first ones of the list, each once, and each
\* has given back before the next is invoked
CallsArePrefix ==
  /\ Len(calls) <= Len(methods)
  /\ calls = SubSeq(methods, 1, Len(calls))
  /\ Len(rets) = Len(calls)
  /\ (pc = "expanding" => idx = Len(calls) + 1)

\* the calls whose strategy gave a value (not None) different from the input
Yielding == {k \in 1..Len(rets) : ~rets[k].raised /\ rets[k].value # PyNone
                                   /\ rets[k].value # PyStr(Url)}

\* the calls whose strategy gave a value that is true for Python (not None,
\* not "", not 0) and different from the input
YieldingTruthy == {k \in 1..Len(rets) : ~rets[k].raised /\ Truthy(rets[k].value)
                                         /\ rets[k].value # PyStr(Url)}

\* C2 as stated: the strategies are invoked in list order, one after the
\* other; the call returns the result of the first strategy that yields a
\* value different from the input and invokes no strategy after it.
C2_Original ==
  /\ CallsArePrefix
  /\ \A k \in Yielding : k = Len(calls) /\ ExpandReturned /\ expanded_url = rets[k].value
  /\ (ExpandReturned /\ calls # <<>> /\ Yielding = {}) =>
        Len(calls) = Len(methods) /\ expanded_url = PyStr(Url)

\* C2 as amended: the same, the first strategy being the first that yields a
\* value that is true for Python (non-empty) and different from the input.
C2_ChainOrder ==
  /\ CallsArePrefix
  /\ \A k \in YieldingTruthy : k = Len(calls) /\ ExpandReturned /\ expanded_url = rets[k].value
  /\ (ExpandReturned /\ calls # <<>> /\ YieldingTruthy = {}) =>
        Len(calls) = Len(methods) /\ expanded_url = PyStr(Url)

\* strategies 1 and 2 give nothing, strategy 3 gives a URL, strategy 4 is
\* not invoked
C2_Witness ==
  /\ pc = "extracting"
  /\ Len(calls) = 3
  /\ rets[1].value = PyNone
  /\ rets[2].value = PyNone
  /\ rets[3].value = PyStr("https://shopee.co.th/product/123/456")
  /\ expanded_url = rets[3].value

\* all four strategies were invoked and each gave None
AllFourFailed ==
  /\ Len(rets) = Len(methods)
  /\ \A k \in 1..Len(rets) : ~rets[k].raised /\ rets[k].value = PyNone

\* C3 as stated: when all four strategies fail on a short URL,
\* expand_short_url returns the short URL and the extraction on it finds no
\* identifier.
C3_Original ==
  (AllFourFailed /\ pc \in {"synthesizing", "done", "failed"}) =>
     /\ expanded_url = PyStr(Url)
     /\ product_info = PyNone
     /\ outcome = "error_no_identifier"

\* the answer is one of the failure modes of strategy m: a transport error, a
\* timeout, a status that is not 200, a body that is no JSON object, or an
\* object where the field is missing or holds no string
FailureMode(m, resp) ==
  \/ resp.kind \in {"conn_error", "timeout"}
  \/ resp.kind = "http" /\ resp.status # HTTP_OK
  \/ /\ resp.kind = "http"
     /\ m \in {2, 3}
     /\ \/ resp.body.json # "dict"
        \/ DictGet(resp.body.d, IF m = 2 THEN "resolved_url" ELSE "long_url", PyNone).t # "str"
  \/ /\ resp.kind = "http"
     /\ m = 4
     /\ \/ resp.body.json # "dict"
        \/ DictGet(resp.body.d, "contents", PyNone).t # "html"

\* C4 as stated: every failure mode of a strategy gives None, and no
\* strategy lets an exception out.
C4_Original ==
  calls # <<>> =>
     /\ ~LastRet.raised
     /\ (FailureMode(Len(calls), lastResp) => LastRet.value = PyNone)

\* extract_product_info finds a product of a supported marketplace domain
Recognised(url) ==
  /\ extract_product_info(url) # PyNone
  /\ DomainOf(url) \in DomainSet

\* C5 as stated: a URL that extract_product_info recognises as a product URL
\* of a supported marketplace domain is not a short URL, and no strategy is
\* invoked on it.
C5_Original == calls # <<>> => ~Recognised(Url)

TheLink == "https://shopee.co.th/product/123/456?utm_medium=affiliates&utm_source=an_15310390250"

\* C6: a link that is shown is https://{domain}/product/{shop_id}/{item_id}
\* ?utm_medium=affiliates&utm_source={tag} of the identifier found, also
\* for a legacy URL; shop 123, item 456 on shopee.co.th gives TheLink.
C6_LinkShape ==
  outcome = "link" =>
     /\ product_info # PyNone
     /\ affiliate_link = "https://" \o product_info.domain \o "/product/"
                           \o product_info.shop_id \o "/" \o product_info.item_id
                           \o "?utm_medium=affiliates&utm_source=an_15310390250"
     /\ (Url \in {"https://shopee.co.th/product/123/456",
                  "https://shopee.co.th/name.i.123.456"} => affiliate_link = TheLink)

C6_Witness ==
  /\ outcome = "link"
  /\ Url = "https://shopee.co.th/name.i.123.456"
  /\ ~product_info.is_product_format
  /\ affiliate_link = TheLink

\* extract_product_info has run on the text of the form itself
ExtractedFromInput ==
  /\ pc = "synthesizing" \/ (pc = "failed" /\ outcome = "error_no_identifier")
  /\ calls = <<>>

\* C7: for each of the nine domains and each of the two shapes,
\* extract_product_info on a well-formed URL gives the shop id and the item
\* id of the URL and its marketplace domain, shopee.co.th when the URL has
\* no authority to find.
C7_ExtractWellFormed ==
  (ExtractedFromInput /\ parts.shape # "other") =>
     product_info = [t |-> "dict",
                     shop_id |-> parts.shop,
                     item_id |-> parts.item,
                     domain |-> IF parts.scheme = "" THEN "shopee.co.th" ELSE parts.dom,
                     is_product_format |-> (parts.shape = "product")]

C7_Witness ==
  /\ ExtractedFromInput
  /\ parts = Parts("legacy", "http://", "shopee.com.br", "123", "0")
  /\ product_info.shop_id = "123"
  /\ product_info.item_id = "0"
  /\ product_info.domain = "shopee.com.br"

Errors == {"error_empty", "error_no_identifier", "error_unexpected", "warning_clipboard"}

\* the order of the steps of a request
StepOrder ==
  /\ pc = "idle" => pc' \in {"start", "failed"}
  /\ pc = "start" => pc' \in {"expanding", "extracting"}
  /\ pc = "expanding" => pc' \in {"expanding", "extracting"}
  /\ pc = "extracting" => pc' \in {"synthesizing", "failed"}
  /\ pc = "synthesizing" => pc' = "done"
  /\ pc \in {"done", "failed"} => pc' = pc

\* a run that has ended shows a link or has reported a failure, never both;
\* a run that has not ended stands at a step that can be taken (inside the
\* loop there is a method left to try)
OneOutcome ==
  /\ outcome = "link" <=> pc = "done"
  /\ outcome \in Errors <=> pc = "failed"
  /\ outcome \in Errors \cup {"link", "none"}
  /\ pc = "done" => affiliate_link # "" /\ product_info # PyNone
  /\ pc # "done" => affiliate_link = ""
  /\ pc \in {"idle", "start", "expanding", "extracting", "synthesizing", "done", "failed"}
  /\ pc = "expanding" => idx \in 1..Len(methods)

\* C8: a request goes Start, Expanding (for a short URL), Extracting,
\* Synthesizing, Done or leaves to a reported failure; it ends with a link,
\* shown only after an identifier was found, or with a reported failure, and
\* never with neither.
C8_Lifecycle == [](OneOutcome) /\ [][StepOrder]_vars

\* no identifier is found in the URL a strategy resolved the short URL to
C8_Witness ==
  /\ pc = "failed"
  /\ outcome = "error_no_identifier"
  /\ calls # <<>>
  /\ expanded_url = PyStr("https://shopee.co.th/")
  /\ expanded_url # PyStr(Url)

PatternIndex(dom, shape) ==
  CHOOSE k \in 1..Len(patterns) : patterns[k] = [dom |-> dom, shape |-> shape]

StatusOrFieldLacking(m, resp) ==
  /\ resp.kind = "http"
  /\ \/ resp.status # HTTP_OK
     \/ m \in {2, 3} /\ (resp.body.json # "dict" \/
          (IF m = 2 THEN "resolved_url" ELSE "long_url") \notin DOMAIN resp.body.d)
     \/ m = 4 /\ (resp.body.json # "dict" \/ "contents" \notin DOMAIN resp.body.d)

\* C10 as stated: a strategy never gives back the input URL, and gives None
\* on a status that is not 200 and on a response that lacks the field.
C10_Original ==
  calls # <<>> =>
     /\ LastRet.value # PyStr(Url)
     /\ (StatusOrFieldLacking(Len(calls), lastResp) => LastRet.value = PyNone)

\* C10 as amended: the direct redirect strategy never gives back the input
\* URL (it does not look at the status); the two resolvers and the proxy
\* give None on a status that is not 200 and on a response that lacks the
\* field, and may give back the input URL; expand_short_url then goes on to
\* the next strategy.
C10_StrategyResults ==
  calls # <<>> =>
     /\ Len(calls) = 1 => LastRet.value # PyStr(Url)
     /\ (Len(calls) > 1 /\ StatusOrFieldLacking(Len(calls), lastResp)) => LastRet.value = PyNone
     /\ (LastRet.value = PyStr(Url) /\ Len(calls) < Len(methods)) => pc = "expanding"
     /\ (LastRet.value = PyStr(Url) /\ ExpandReturned) => expanded_url = PyStr(Url)

\* resolver A gives back the input URL and the loop goes on
C10_Witness ==
  /\ pc = "expanding"
  /\ Len(calls) = 2
  /\ lastResp.kind = "http"
  /\ lastResp.status = HTTP_OK
  /\ rets[2].value = PyStr(Url)
====
